---------------------------- MODULE Spec2Model ----------------------------
(***************************************************************************)
(* A model of the epistasis package's EpistasisMixedRegression             *)
(* (src/epistasis/models/mixed.py): a Classifier that labels genotypes     *)
(* dead/alive followed by a quantitative epistasis Model fitted on the     *)
(* alive genotypes.  One action per public method; every action is the     *)
(* whole method, including the state it leaves behind when it raises.      *)
(*                                                                         *)
(* Numbers: phenotypes, coefficients and matrix entries are integers.      *)
(* Matrices are sequences of rows, vectors are sequences.                  *)
(***************************************************************************)
EXTENDS Integers, Sequences, FiniteSets, TLC

(***************************************************************************)
(* Bound of the model.                                                     *)
(***************************************************************************)
\* number of mutation sites of the attached genotype-phenotype map
NSites == 2

(***************************************************************************)
(* Constructor parameters (EpistasisMixedRegression.__init__).             *)
(***************************************************************************)
order == 2
threshold == 1
model_type == "global"

(***************************************************************************)
(* Small helpers on sequences.                                             *)
(***************************************************************************)
Range(f) == {f[i] : i \in DOMAIN f}

RECURSIVE SumSeq(_)
SumSeq(s) == IF s = <<>> THEN 0 ELSE Head(s) + SumSeq(Tail(s))

RECURSIVE Pow2(_)
Pow2(n) == IF n = 0 THEN 1 ELSE 2 * Pow2(n - 1)

\* X.shape[0] and X.shape[1] of a 2-d array
NRows(m) == Len(m)
NCols(m) == IF Len(m) = 0 THEN 0 ELSE Len(m[1])

\* numpy.dot of one matrix row with a coefficient vector
Dot(row, coefs) == SumSeq([j \in 1..Len(row) |-> row[j] * coefs[j]])

(***************************************************************************)
(* Genotypes, interaction labels and the model matrix.  A genotype is the  *)
(* set of its mutated sites; gpm.binary.complete_genotypes lists all of    *)
(* them in the order of their binary strings (site 1 is the leftmost bit). *)
(***************************************************************************)
Mutations == 1..NSites

BinaryValue(g) == SumSeq([s \in 1..NSites |-> IF s \in g THEN Pow2(NSites - s) ELSE 0])

RECURSIVE SortedBy(_, _)
SortedBy(S, key) ==
    IF S = {} THEN <<>>
    ELSE LET x == CHOOSE e \in S : \A o \in S : key[e] <= key[o]
         IN  <<x>> \o SortedBy(S \ {x}, key)

complete_genotypes ==
    SortedBy(SUBSET Mutations, [g \in SUBSET Mutations |-> BinaryValue(g)])

\* epistasis.mapping.mutations_to_sites(order, mutations): the intercept,
\* then the interaction labels by increasing order, each order in
\* lexicographic order of its sites.
mutations_to_sites(ord) ==
    LET labels == {l \in SUBSET Mutations : Cardinality(l) <= ord}
    IN  SortedBy(labels,
            [l \in labels |-> Cardinality(l) * Pow2(NSites) + (Pow2(NSites) - 1 - BinaryValue(l))])

\* the Classifier is a first-order model (classifier_order = 1), the Model
\* has the order given to the constructor
ClassifierSites == mutations_to_sites(1)
ModelSites == mutations_to_sites(order)

\* one entry of the model matrix: Hadamard (+1/-1) coding for "global",
\* dummy (0/1) coding for "local"
MatrixEntry(g, label, mtype) ==
    IF mtype = "global"
    THEN (IF Cardinality(g \cap label) % 2 = 0 THEN 1 ELSE -1)
    ELSE (IF label \subseteq g THEN 1 ELSE 0)

\* epistasis.model_matrix_ext.get_model_matrix(index, sites, model_type)
get_model_matrix(index, sites, mtype) ==
    [i \in 1..Len(index) |-> [j \in 1..Len(sites) |-> MatrixEntry(index[i], sites[j], mtype)]]

(***************************************************************************)
(* Boolean-mask indexing: y[ypred==1] and Xfit[ypred==1,:] keep, in order, *)
(* the entries whose mask is 1.                                            *)
(***************************************************************************)
RECURSIVE MaskSelect(_, _)
MaskSelect(v, mask) ==
    IF v = <<>> THEN <<>>
    ELSE IF Head(mask) = 1
         THEN <<Head(v)>> \o MaskSelect(Tail(v), Tail(mask))
         ELSE MaskSelect(Tail(v), Tail(mask))

(***************************************************************************)
(* Python values that an argument or a cache slot can hold.                *)
(***************************************************************************)
Str(s)   == [kind |-> "str",       s |-> s,  m |-> <<>>]
Arr(m)   == [kind |-> "ndarray",   s |-> "", m |-> m]
Frame(m) == [kind |-> "DataFrame", s |-> "", m |-> m]
None     == [kind |-> "None",      s |-> "", m |-> <<>>]
\* an attribute that has not been assigned yet
Unset    == [kind |-> "unset",     s |-> "", m |-> <<>>]

\* dict[key] = value
Put(d, k, v) == [x \in (DOMAIN d) \cup {k} |-> IF x = k THEN v ELSE d[x]]

(***************************************************************************)
(* The collaborators.  The Classifier is a logistic regression on the      *)
(* order-1 model matrix, the Model a regression on the full model matrix.  *)
(* What their optimisers return is one of a few coefficient vectors of the *)
(* right length: for the Classifier an intercept alone (every genotype     *)
(* alive, or every genotype dead), an intercept cancelled by the last     *)
(* site (every genotype mutated at that site is dead), or an intercept     *)
(* outweighed by the sites together (only the unmutated genotype is dead). *)
(***************************************************************************)
ClassifierCoefs ==
    {[j \in 1..(NSites + 1) |-> IF j = 1 THEN 1 ELSE 0],
     [j \in 1..(NSites + 1) |-> IF j = 1 THEN -1 ELSE 0],
     [j \in 1..(NSites + 1) |-> IF j = 1 THEN 1 ELSE -1]}
    \cup {[j \in 1..(NSites + 1) |-> IF j = 1 \/ j = NSites + 1 THEN 1 ELSE 0]}

ModelCoefs ==
    LET n == Len(ModelSites)
    IN  {[j \in 1..n |-> IF j = 1 THEN 2 ELSE 1], [j \in 1..n |-> j]}

\* Classifier.predict(X): class 1 where the decision function is positive
ClassifierPredict(X, coef) ==
    [i \in 1..Len(X) |-> IF Dot(X[i], coef) > 0 THEN 1 ELSE 0]

\* Model.predict(X) / Model.hypothesis(X, thetas): X . coefficients
ModelPredict(X, coef) == [i \in 1..Len(X) |-> Dot(X[i], coef)]

(***************************************************************************)
(* The genotype-phenotype maps that can be attached.  Either every         *)
(* genotype was observed or the last one is missing; phenotypes differ     *)
(* from row to row.                                                        *)
(***************************************************************************)
NGenotypes == Len(complete_genotypes)

\* every genotype observed: the first one measured as 0, the last one
\* measured without error
GpmComplete ==
    [attached |-> TRUE, genotypes |-> complete_genotypes,
     phenotypes |-> [i \in 1..NGenotypes |-> IF i = 1 THEN 0 ELSE i],
     std |-> [i \in 1..NGenotypes |-> IF i = NGenotypes THEN 0 ELSE 1]]

\* the last genotype is missing from the data
GpmMissing ==
    [attached |-> TRUE, genotypes |-> SubSeq(complete_genotypes, 1, NGenotypes - 1),
     phenotypes |-> [i \in 1..(NGenotypes - 1) |-> NGenotypes + 1 - i],
     std |-> [i \in 1..(NGenotypes - 1) |-> 1]]

\* every genotype observed, with other phenotypes
GpmRemeasured ==
    [attached |-> TRUE, genotypes |-> complete_genotypes,
     phenotypes |-> [i \in 1..NGenotypes |-> NGenotypes + 2 - i],
     std |-> [i \in 1..NGenotypes |-> 1]]

Gpms == {GpmComplete, GpmRemeasured, GpmMissing}

NoGpm == [attached |-> FALSE, genotypes |-> <<>>, phenotypes |-> <<>>, std |-> <<>>]

(***************************************************************************)
(* State.                                                                  *)
(***************************************************************************)
VARIABLES
    gpm,         \* the attached GenotypePhenotypeMap (self.gpm)
    Xbuilt,      \* self._Xbuilt: a dict from key to value
    Xclass,      \* self.Xclass
    Xfit,        \* self.Xfit
    Classifier,  \* self.Classifier: coef_[0] and the data it was fitted on
    Model,       \* self.Model: coef_ and the data it was fitted on
    call,        \* the last method call and its arguments
    result,      \* "ok" or the name of the exception the last call raised
    stages,      \* the collaborator calls the last call made, in order
    out,         \* what the last call returned or handed to its collaborators
    basis        \* a LocalEpistasisModel or GlobalEpistasisModel object (models.py)

vars == <<gpm, Xbuilt, Xclass, Xfit, Classifier, Model, call, result, stages, out, basis>>

self == <<gpm, Xbuilt, Xclass, Xfit, Classifier, Model>>

UnfittedClassifier == [fitted |-> FALSE, coef |-> <<>>, Xfit |-> <<>>, y |-> <<>>]

UnfittedModel == [fitted |-> FALSE, coef |-> <<>>, Xfit |-> <<>>, y |-> <<>>]

NoOut == [kind |-> "None"]

\* no basis model has been constructed
NoBasis == [kind |-> "none"]

Init ==
    /\ gpm = NoGpm
    /\ Xbuilt = <<>>
    /\ Xclass = Unset
    /\ Xfit = Unset
    /\ Classifier = UnfittedClassifier
    /\ Model = UnfittedModel
    /\ call = [op |-> "__init__"]
    /\ result = "ok"
    /\ stages = <<>>
    /\ out = NoOut
    /\ basis = NoBasis

\* a call that raises before it has changed anything
Raises(c, exc) ==
    /\ call' = c
    /\ result' = exc
    /\ stages' = <<>>
    /\ out' = NoOut
    /\ UNCHANGED <<self, basis>>

(***************************************************************************)
(* Classifier.fit(X, y) and Model.fit(X, y): the coefficients the          *)
(* optimiser can return.  A collaborator fitted again on the data it was   *)
(* last fitted on returns the same coefficients.                           *)
(***************************************************************************)
ClassifierFit(X, y) ==
    IF Classifier.fitted /\ Classifier.Xfit = X /\ Classifier.y = y
    THEN {Classifier.coef}
    ELSE ClassifierCoefs

ModelFit(X, y) ==
    IF Model.fitted /\ Model.Xfit = X /\ Model.y = y
    THEN {Model.coef}
    ELSE ModelCoefs

(***************************************************************************)
(* add_gpm(gpm)                                                            *)
(***************************************************************************)
add_gpm(g) ==
    /\ gpm' = g
    /\ call' = [op |-> "add_gpm"]
    /\ result' = "ok"
    /\ stages' = <<>>
    /\ out' = NoOut
    /\ UNCHANGED <<Xbuilt, Xclass, Xfit, Classifier, Model, basis>>

(***************************************************************************)
(* fit(X='obs', y='obs'): the arguments it can be called with.             *)
(***************************************************************************)
Selectors == {"obs", "complete", "fit", "all"}

\* the model matrix of all genotypes, and of all but the last one
XArrays ==
    {get_model_matrix(SubSeq(complete_genotypes, 1, r), ModelSites, model_type) :
        r \in {NGenotypes - 1, NGenotypes}}

YArrays == {[i \in 1..n |-> i] : n \in {NGenotypes - 1, NGenotypes}}

\* The argument pairs: two selectors, equal or one of them "obs"; an array
\* or a table for X with y = "obs"; two arrays; a selector with an array.
FitArgs ==
    {[X |-> Str(a), y |-> Str(a)] : a \in Selectors}
        \cup {[X |-> Str(a), y |-> Str("obs")] : a \in Selectors}
        \cup {[X |-> Str("obs"), y |-> Str(b)] : b \in Selectors}
        \cup {[X |-> Arr(m), y |-> Str("obs")] : m \in XArrays}
        \cup {[X |-> Arr(m), y |-> Arr(v)] : m \in XArrays, v \in YArrays}
        \cup {[X |-> Str("obs"), y |-> Arr(v)] : v \in YArrays}
        \cup {[X |-> Frame(get_model_matrix(complete_genotypes, ModelSites, model_type)),
               y |-> Str("obs")]}

FitCall(X, y) == [op |-> "fit", X |-> X, y |-> y]

(***************************************************************************)
(* fit, sanity checks on input.                                            *)
(***************************************************************************)
\* the comparison of the two selectors inverted
SelectorMismatchInverted(X, y) == X.kind = "str" /\ y.kind = "str" /\ X.s = y.s

\* type(X) == str and type(y) == str and X != y
SelectorMismatch(X, y) == X.kind = "str" /\ y.kind = "str" /\ X.s # y.s

\* type(X) != str and type(y) != str and X.shape[1] != y.shape[0]
ShapeMismatch(X, y) == X.kind # "str" /\ y.kind # "str" /\ NCols(X.m) # Len(y.m)

\* type(y) is str and y in ["obs", "complete"]
YIsSelector(y) == y.kind = "str" /\ y.s \in {"obs", "complete"}

\* the input passes the sanity checks and the handling of y
PassesChecks(X, y) ==
    /\ ~SelectorMismatch(X, y)
    /\ ~ShapeMismatch(X, y)
    /\ YIsSelector(y)

\* Xbuilt['class'] and Xbuilt[X] raise neither KeyError nor TypeError
Cached(X) == X.kind = "str" /\ "class" \in DOMAIN Xbuilt /\ X.s \in DOMAIN Xbuilt

\* y[ypred==1] followed by reset_index(drop=True)
AlivePhenotypes(y, ypred) == MaskSelect(y, ypred)

\* Xfit[ypred==1,:]
AliveRows(X, ypred) == MaskSelect(X, ypred)

FitSelectorMismatch(X, y) ==
    /\ SelectorMismatch(X, y)
    /\ Raises(FitCall(X, y), "FittingError")

FitShapeMismatch(X, y) ==
    /\ ~SelectorMismatch(X, y)
    /\ ShapeMismatch(X, y)
    /\ Raises(FitCall(X, y), "FittingError")

\* y is neither "obs" nor "complete": the elif of the y handling evaluates
\* pd.Series, and the module never imports pd
FitInvalidY(X, y) ==
    /\ ~SelectorMismatch(X, y)
    /\ ~ShapeMismatch(X, y)
    /\ ~YIsSelector(y)
    /\ Raises(FitCall(X, y), "NameError")

\* y = self.gpm.binary.phenotypes with no gpm attached
FitNoGpm(X, y) ==
    /\ PassesChecks(X, y)
    /\ ~gpm.attached
    /\ Raises(FitCall(X, y), "AttributeError")

(***************************************************************************)
(* fit, the try block: both matrices are in Xbuilt already.                *)
(***************************************************************************)
FitCached(X, y) ==
    /\ PassesChecks(X, y)
    /\ gpm.attached
    /\ Cached(X)
    /\ LET y0 == gpm.phenotypes
           xc == Xbuilt["class"].m
       IN  IF NRows(xc) # Len(y0)
           THEN Raises(FitCall(X, y), "ValueError")
           ELSE /\ \E cc \in ClassifierFit(xc, y0) :
                      Classifier' = [fitted |-> TRUE, coef |-> cc, Xfit |-> xc, y |-> y0]
                /\ call' = FitCall(X, y)
                /\ result' = "ok"
                /\ stages' = <<"Classifier.fit">>
                /\ out' = NoOut
                /\ UNCHANGED <<gpm, Xbuilt, Xclass, Xfit, Model, basis>>

(***************************************************************************)
(* fit, the except block with a selector string: build both matrices, fit  *)
(* the Classifier, drop the rows it predicts dead, fit the Model.          *)
(***************************************************************************)
FitBuild(X, y) ==
    /\ PassesChecks(X, y)
    /\ gpm.attached
    /\ ~Cached(X)
    /\ X.kind = "str"
    /\ LET y0    == gpm.phenotypes
           index == IF X.s = "obs" THEN gpm.genotypes ELSE complete_genotypes
           xc    == get_model_matrix(index, ClassifierSites, model_type)
           xf    == get_model_matrix(index, ModelSites, model_type)
       IN  /\ call' = FitCall(X, y)
           /\ out' = NoOut
           /\ UNCHANGED <<gpm, basis>>
           /\ Xclass' = Arr(xc)
           /\ IF NRows(xc) # Len(y0)
              THEN \* Classifier.fit raises on inconsistent numbers of samples
                   /\ result' = "ValueError"
                   /\ stages' = <<>>
                   /\ Xbuilt' = Put(Xbuilt, "class", Arr(xc))
                   /\ UNCHANGED <<Xfit, Classifier, Model>>
              ELSE \E cc \in ClassifierFit(xc, y0) :
                   LET ypred == ClassifierPredict(xc, cc)
                       yfit  == AlivePhenotypes(y0, ypred)
                       xfit  == AliveRows(xf, ypred)
                   IN  /\ Classifier' = [fitted |-> TRUE, coef |-> cc, Xfit |-> xc, y |-> y0]
                       /\ Xbuilt' = Put(Put(Put(Xbuilt, "class", Arr(xc)), X.s, Arr(xf)), "fit", X)
                       /\ Xfit' = Arr(xfit)
                       /\ IF NRows(xfit) = 0
                          THEN \* Model.fit raises on an empty sample
                               /\ result' = "ValueError"
                               /\ stages' = <<"Classifier.fit", "Classifier.predict">>
                               /\ Model' = Model
                          ELSE /\ result' = "ok"
                               /\ stages' = <<"Classifier.fit", "Classifier.predict", "Model.fit">>
                               /\ \E mc \in ModelFit(xfit, yfit) :
                                      Model' = [fitted |-> TRUE, coef |-> mc,
                                                Xfit |-> xfit, y |-> yfit]

(***************************************************************************)
(* fit, the except block with a 2-d array.                                 *)
(***************************************************************************)
FitArray(X, y) ==
    /\ PassesChecks(X, y)
    /\ gpm.attached
    /\ X.kind = "ndarray"
    /\ LET y0 == gpm.phenotypes
       IN  IF NRows(X.m) # Len(y0)
           THEN Raises(FitCall(X, y), "XMatrixException")
           ELSE IF Xclass = Unset \/ ~Classifier.fitted
           THEN Raises(FitCall(X, y), "FittingError")
           ELSE LET ypred == ClassifierPredict(Xclass.m, Classifier.coef)
                IN  IF Len(ypred) # Len(y0)
                    THEN Raises(FitCall(X, y), "FittingError")
                    ELSE IF NRows(Xfit.m) # Len(ypred)
                    THEN \* self.Xfit[ypred==1,:] with a mask of another length
                         /\ Raises(FitCall(X, y), "IndexError")
                    ELSE LET yfit == AlivePhenotypes(y0, ypred)
                             xfit == AliveRows(Xfit.m, ypred)
                         IN  /\ call' = FitCall(X, y)
                             /\ out' = NoOut
                             /\ Xfit' = Arr(xfit)
                             /\ Xbuilt' = Put(Xbuilt, "fit", X)
                             /\ UNCHANGED <<gpm, Xclass, Classifier, basis>>
                             /\ IF NRows(xfit) = 0
                                THEN /\ result' = "ValueError"
                                     /\ stages' = <<"Classifier.predict">>
                                     /\ Model' = Model
                                ELSE /\ result' = "ok"
                                     /\ stages' = <<"Classifier.predict", "Model.fit">>
                                     /\ \E mc \in ModelFit(xfit, yfit) :
                                            Model' = [fitted |-> TRUE, coef |-> mc,
                                                      Xfit |-> xfit, y |-> yfit]

\* X is neither a string nor an ndarray: the elif evaluates pd.DataFrame
FitFrame(X, y) ==
    /\ PassesChecks(X, y)
    /\ gpm.attached
    /\ X.kind = "DataFrame"
    /\ Raises(FitCall(X, y), "NameError")

fit(X, y) ==
    \/ FitSelectorMismatch(X, y)
    \/ FitShapeMismatch(X, y)
    \/ FitInvalidY(X, y)
    \/ FitNoGpm(X, y)
    \/ FitCached(X, y)
    \/ FitBuild(X, y)
    \/ FitArray(X, y)
    \/ FitFrame(X, y)

(***************************************************************************)
(* thetas: np.concatenate((self.Classifier.thetas, self.Model.thetas)).    *)
(* The thetas of a collaborator are its coefficients.                      *)
(***************************************************************************)
\* the two coefficient vectors in the other order
concatenateModelFirst(a, b) == b \o a

concatenate(a, b) == a \o b

Fitted == Classifier.fitted /\ Model.fitted

thetas == concatenate(Classifier.coef, Model.coef)

(***************************************************************************)
(* predict(X=None)                                                         *)
(***************************************************************************)
\* the mask taken as ypred[yclasses==1] = 0
MaskAlive(ypred, yclasses) ==
    [i \in 1..Len(ypred) |-> IF yclasses[i] = 1 THEN 0 ELSE ypred[i]]

\* ypred[yclasses==0] = 0
MaskDead(ypred, yclasses) ==
    [i \in 1..Len(ypred) |-> IF yclasses[i] = 0 THEN 0 ELSE ypred[i]]

\* X[:,:nterms]
ColumnSlice(X, nterms) == [i \in 1..Len(X) |-> SubSeq(X[i], 1, nterms)]

PredictCall(X) == [op |-> "predict", X |-> X]

PredictArgs == {None} \cup {Arr(m) : m \in XArrays}

PredictOut(ypred, yclasses) ==
    [kind |-> "predict", ypred |-> ypred, yclasses |-> yclasses,
     value |-> MaskDead(ypred, yclasses)]

\* a call that changes nothing of the object and returns a value
Returns(c, st, o) ==
    /\ call' = c
    /\ result' = "ok"
    /\ stages' = st
    /\ out' = o
    /\ UNCHANGED <<self, basis>>

\* X is None: each collaborator predicts for the matrix it was fitted on
PredictDefault(X) ==
    /\ X.kind = "None"
    /\ IF ~Fitted
       THEN Raises(PredictCall(X), "NotFittedError")
       ELSE LET ypred    == ModelPredict(Model.Xfit, Model.coef)
                yclasses == ClassifierPredict(Classifier.Xfit, Classifier.coef)
            IN  IF Len(yclasses) # Len(ypred)
                THEN Raises(PredictCall(X), "IndexError")
                ELSE Returns(PredictCall(X), <<"Model.predict", "Classifier.predict">>,
                             PredictOut(ypred, yclasses))

PredictArray(X) ==
    /\ X.kind = "ndarray"
    /\ IF ~Fitted
       THEN Raises(PredictCall(X), "NotFittedError")
       ELSE IF NCols(X.m) # Len(Model.coef)
       THEN Raises(PredictCall(X), "ValueError")
       ELSE LET ypred    == ModelPredict(X.m, Model.coef)
                nterms   == NCols(Classifier.Xfit)
                yclasses == ClassifierPredict(ColumnSlice(X.m, nterms), Classifier.coef)
            IN  Returns(PredictCall(X), <<"Model.predict", "Classifier.predict">>,
                        PredictOut(ypred, yclasses))

predict(X) ==
    \/ PredictDefault(X)
    \/ PredictArray(X)

(***************************************************************************)
(* Floating point, as far as the likelihood needs it: a value is finite    *)
(* (an integer number of units, NatUnits units to the nat), +inf, -inf or  *)
(* NaN, and the operations follow IEEE 754.                                *)
(***************************************************************************)
NatUnits == 2000

Fin(v) == [k |-> "fin", v |-> v]
PInf == [k |-> "inf", v |-> 1]
NInf == [k |-> "inf", v |-> -1]
NaN == [k |-> "nan", v |-> 0]

Sign(n) == IF n > 0 THEN 1 ELSE IF n < 0 THEN -1 ELSE 0

\* a + b
FAdd(a, b) ==
    IF a.k = "nan" \/ b.k = "nan" THEN NaN
    ELSE IF a.k = "inf" /\ b.k = "inf" THEN (IF a.v = b.v THEN a ELSE NaN)
    ELSE IF a.k = "inf" THEN a
    ELSE IF b.k = "inf" THEN b
    ELSE Fin(a.v + b.v)

\* -a
FNeg(a) == IF a.k = "nan" THEN NaN ELSE [k |-> a.k, v |-> -a.v]

\* n * a for an integer n: 0 * inf is NaN
FScale(n, a) ==
    IF a.k = "nan" THEN NaN
    ELSE IF a.k = "inf" THEN (IF n = 0 THEN NaN ELSE [k |-> "inf", v |-> Sign(n) * a.v])
    ELSE Fin(n * a.v)

\* -0.5 * a (every finite value of the model is an even number of units)
FMinusHalf(a) == IF a.k = "fin" THEN Fin(-(a.v \div 2)) ELSE FNeg(a)

\* np.isinf
isinf(a) == a.k = "inf"

RECURSIVE FSum(_)
FSum(s) == IF s = <<>> THEN Fin(0) ELSE FAdd(Head(s), FSum(Tail(s)))

(***************************************************************************)
(* Classifier.hypothesis(X, thetas): the logistic function of the score    *)
(* X . thetas.  In double precision it is exactly 1 from a score of 37 on  *)
(* and exactly 0 below a score of -745; the logarithms are rounded to an   *)
(* even number of units.                                                   *)
(***************************************************************************)
Scores(X, th) == [i \in 1..Len(X) |-> Dot(X[i], th)]

\* log(1 / (1 + exp(-s))) for a score s >= 0
LogLogisticNonNeg(s) ==
    CASE s = 0 -> -1386
      [] s = 1 -> -626
      [] s = 2 -> -254
      [] s = 3 -> -98
      [] s = 4 -> -36
      [] s = 5 -> -14
      [] s = 6 -> -4
      [] s = 7 -> -2
      [] OTHER -> 0

\* np.log(y_class_prob)
LogProba(s) ==
    IF s < -745 THEN NInf
    ELSE IF s < 0 THEN Fin(NatUnits * s + LogLogisticNonNeg(-s))
    ELSE Fin(LogLogisticNonNeg(s))

\* np.log(1 - y_class_prob)
LogOneMinusProba(s) ==
    IF s >= 37 THEN NInf
    ELSE IF s > 0 THEN Fin(-(NatUnits * s) + LogLogisticNonNeg(s))
    ELSE Fin(LogLogisticNonNeg(-s))

\* classes = np.ones(len(proba)); classes[proba<0.5] = 0
Classes(scores) == [i \in 1..Len(scores) |-> IF scores[i] < 0 THEN 0 ELSE 1]

\* binarize(ydata, threshold=self.threshold)[0]
binarize(ydata, thr) == [i \in 1..Len(ydata) |-> IF ydata[i] > thr THEN 1 ELSE 0]

(***************************************************************************)
(* The split of the coefficient vector at len(self.Classifier.coef_[0]).   *)
(***************************************************************************)
\* len(self.Classifier.coef_), the number of rows of coef_, instead of
\* len(self.Classifier.coef_[0])
SplitPointRows == Len(<<Classifier.coef>>)

SplitPoint == Len(Classifier.coef)

\* thetas[0:len(self.Classifier.coef_[0])]
Thetas1(th) == SubSeq(th, 1, SplitPoint)

\* thetas[len(self.Classifier.coef_[0]):]
Thetas2(th) == SubSeq(th, SplitPoint + 1, Len(th))

\* explicit coefficient vectors: the classifier's intercept is large enough
\* to saturate the logistic function at 1 (40) or at 0 (-800)
ThetasArgs ==
    {None} \cup
    {Arr([j \in 1..(Len(ClassifierSites) + Len(ModelSites)) |->
            IF j = 1 THEN c ELSE IF j <= Len(ClassifierSites) THEN 0 ELSE 1]) : c \in {40, -800}}

(***************************************************************************)
(* hypothesis(X=None, thetas=None)                                         *)
(***************************************************************************)
HypothesisCall(th) == [op |-> "hypothesis", thetas |-> th]

hypothesis(th) ==
    IF th.kind = "None" /\ ~Fitted
    THEN Raises(HypothesisCall(th), "AttributeError")
    ELSE IF ~Classifier.fitted
    THEN Raises(HypothesisCall(th), "AttributeError")
    ELSE LET t  == IF th.kind = "None" THEN thetas ELSE th.m
             t1 == Thetas1(t)
             t2 == Thetas2(t)
         IN  IF Len(t1) # NCols(Classifier.Xfit) \/ ~Model.fitted \/ Len(t2) # NCols(Model.Xfit)
             THEN \* the dot product of a matrix with a vector of another length
                  Raises(HypothesisCall(th), "ValueError: shapes not aligned")
             ELSE LET classes == Classes(Scores(Classifier.Xfit, t1))
                      y       == ModelPredict(Model.Xfit, t2)
                  IN  IF Len(classes) # Len(y)
                      THEN Raises(HypothesisCall(th), "IndexError")
                      ELSE Returns(HypothesisCall(th),
                                   <<"Classifier.hypothesis", "Model.hypothesis">>,
                                   [kind |-> "hypothesis", thetas1 |-> t1, thetas2 |-> t2,
                                    value |-> MaskDead(y, classes)])

(***************************************************************************)
(* lnlikelihood(X=None, ydata=None, yerr=None, thetas=None)                *)
(***************************************************************************)
LnlikelihoodCall(th) == [op |-> "lnlikelihood", thetas |-> th]

\* 1.0/(yerr**2), for an error of 0 or 1
InvSigma2(e) == IF e = 0 THEN PInf ELSE Fin(1)

\* np.log(inv_sigma2)
LogInvSigma2(e) == IF e = 0 THEN PInf ELSE Fin(0)

\* (ydata-ymodel)**2*inv_sigma2 - np.log(inv_sigma2), one entry
LnGaussian(yd, ym, e) ==
    LET d2 == (yd - ym) * (yd - ym)
        weighted == IF e = 0 THEN FScale(d2, PInf) ELSE Fin(NatUnits * d2)
    IN  FAdd(weighted, FNeg(LogInvSigma2(e)))

\* ybin * np.log(y_class_prob) + (1 - ybin) * np.log(1-y_class_prob), one entry
LnLogit(yb, s) == FAdd(FScale(yb, LogProba(s)), FScale(1 - yb, LogOneMinusProba(s)))

\* the Gaussian term added for the rows of class 1: lnlikelihood[classes==1]
GaussianRowsByClass(ybin, classes) == {i \in 1..Len(classes) : classes[i] = 1}

\* the rows whose Gaussian term is added: lnlikelihood[ybin==1]
GaussianRows(ybin, classes) == {i \in 1..Len(ybin) : ybin[i] = 1}

\* -0.5 * sum(lnlikelihood)
Combined(ydata, yerr, ybin, scores, classes, ymodel) ==
    LET rows == GaussianRows(ybin, classes)
        term(i) == IF i \in rows
                   THEN FAdd(LnLogit(ybin[i], scores[i]), LnGaussian(ydata[i], ymodel[i], yerr[i]))
                   ELSE LnLogit(ybin[i], scores[i])
    IN  FMinusHalf(FSum([i \in 1..Len(ydata) |-> term(i)]))

\* the value returned as computed
ClampOmitted(v) == v

\* if np.isinf(lnlikelihood): return -np.inf
Clamp(v) == IF isinf(v) THEN NInf ELSE v

lnlikelihood(th) ==
    IF ~gpm.attached
    THEN Raises(LnlikelihoodCall(th), "AttributeError")
    ELSE IF (th.kind = "None" /\ ~Fitted) \/ ~Classifier.fitted \/ Xclass = Unset \/ Xfit = Unset
    THEN Raises(LnlikelihoodCall(th), "AttributeError")
    ELSE LET ydata == gpm.phenotypes
             yerr  == gpm.std
             ybin  == binarize(ydata, threshold)
             t     == IF th.kind = "None" THEN thetas ELSE th.m
             t1    == Thetas1(t)
             t2    == Thetas2(t)
         IN  IF Len(t1) # NCols(Xclass.m) \/ (NRows(Xfit.m) > 0 /\ Len(t2) # NCols(Xfit.m))
             THEN \* the dot product of a matrix with a vector of another length
                  Raises(LnlikelihoodCall(th), "ValueError: shapes not aligned")
             ELSE LET scores  == Scores(Xclass.m, t1)
                      classes == Classes(scores)
                      ymodel0 == ModelPredict(Xfit.m, t2)
                  IN  IF Len(classes) # Len(ymodel0)
                      THEN \* ymodel[classes==0] = 0 with a mask of another length
                           Raises(LnlikelihoodCall(th), "IndexError")
                      ELSE IF Len(ydata) # Len(classes)
                      THEN \* operands could not be broadcast together
                           Raises(LnlikelihoodCall(th), "ValueError")
                      ELSE LET ymodel == MaskDead(ymodel0, classes)
                               v == Combined(ydata, yerr, ybin, scores, classes, ymodel)
                           IN  Returns(LnlikelihoodCall(th),
                                       <<"Classifier.hypothesis", "Model.hypothesis">>,
                                       [kind |-> "lnlikelihood", thetas1 |-> t1, thetas2 |-> t2,
                                        gaussian |-> GaussianRows(ybin, classes),
                                        classes |-> classes,
                                        combined |-> v, value |-> Clamp(v)])

Next ==
    \/ \E g \in Gpms : add_gpm(g)
    \/ \E a \in FitArgs : fit(a.X, a.y)
    \/ \E X \in PredictArgs : predict(X)
    \/ \E th \in ThetasArgs : hypothesis(th)
    \/ \E th \in ThetasArgs : lnlikelihood(th)

Spec == Init /\ [][Next]_vars

(***************************************************************************)
(* The basis models of models.py: LocalEpistasisModel and                  *)
(* GlobalEpistasisModel.                                                   *)
(*                                                                         *)
(* Their arrays hold floating-point numbers.  A float is a dyadic number   *)
(* n / 2^s with a significand of at most Bits bits; every addition and     *)
(* multiplication is rounded to the nearest float, ties to even.           *)
(***************************************************************************)
Length == 3
Bits == 8

Abs(n) == IF n < 0 THEN -n ELSE n

\* the number of low bits a natural number loses when it is rounded
RECURSIVE DroppedBits(_)
DroppedBits(n) == IF n < Pow2(Bits) THEN 0 ELSE 1 + DroppedBits(n \div 2)

\* round to nearest, ties to even
RoundNat(n) ==
    LET u == Pow2(DroppedBits(n))
        m == n \div u
        r == n % u
    IN  IF 2 * r > u \/ (2 * r = u /\ m % 2 = 1) THEN (m + 1) * u ELSE m * u

Round(n) == IF n < 0 THEN -RoundNat(-n) ELSE RoundNat(n)

\* the float n / 2^s, in lowest terms
RECURSIVE Float(_, _)
Float(n, s) == IF s > 0 /\ n % 2 = 0 THEN Float(n \div 2, s - 1) ELSE [n |-> n, s |-> s]

Zero == Float(0, 0)

\* a + b and a * b, rounded
Add(a, b) ==
    LET s == IF a.s > b.s THEN a.s ELSE b.s
    IN  Float(Round(a.n * Pow2(s - a.s) + b.n * Pow2(s - b.s)), s)

Mul(a, b) == Float(Round(a.n * b.n), a.s + b.s)

\* a float can hold the integer without rounding it
Representable(n) == Round(n) = n

(***************************************************************************)
(* numpy.dot of a matrix row and a vector.  The order in which the BLAS    *)
(* library adds the products is not fixed by numpy: the reference          *)
(* implementation adds them one after the other, blocked kernels add the   *)
(* two halves of the row separately.                                       *)
(***************************************************************************)
BlasOrders == {"sequential", "blocked"}

RECURSIVE SumSequential(_, _)
SumSequential(acc, s) ==
    IF s = <<>> THEN acc ELSE SumSequential(Add(acc, Head(s)), Tail(s))

RECURSIVE SumBlocked(_)
SumBlocked(s) ==
    IF Len(s) = 0 THEN Zero
    ELSE IF Len(s) = 1 THEN s[1]
    ELSE LET h == Len(s) \div 2
         IN  Add(SumBlocked(SubSeq(s, 1, h)), SumBlocked(SubSeq(s, h + 1, Len(s))))

RowDot(row, v, blas) ==
    LET p == [j \in 1..Len(row) |-> Mul(row[j], v[j])]
    IN  IF blas = "sequential" THEN SumSequential(Zero, p) ELSE SumBlocked(p)

\* np.dot(M, v) for a 2-d array M and a 1-d array v
MatVec(M, v, blas) == [i \in 1..Len(M) |-> RowDot(M[i], v, blas)]

\* an array of integers as an array of floats
AsFloats(M) == [i \in 1..Len(M) |-> [j \in 1..Len(M[i]) |-> Float(M[i][j], 0)]]

(***************************************************************************)
(* Genotypes and interaction labels of a map with Length sites.  A         *)
(* genotype and a label are the set of their mutated sites;                *)
(* Binary.genotypes lists the genotypes in the order of their binary       *)
(* strings, Interactions.labels lists the labels by order.                 *)
(***************************************************************************)
Sites == 1..Length

GenotypeValue(g) == SumSeq([s \in 1..Length |-> IF s \in g THEN Pow2(Length - s) ELSE 0])

BinaryGenotypes ==
    SortedBy(SUBSET Sites, [g \in SUBSET Sites |-> GenotypeValue(g)])

InteractionLabels ==
    SortedBy(SUBSET Sites,
        [l \in SUBSET Sites |-> Cardinality(l) * Pow2(Length) + (Pow2(Length) - 1 - GenotypeValue(l))])

\* epistasis.regression_ext.generate_dv_matrix(genotypes, labels): a genotype
\* carries an interaction when all the sites of its label are mutated
generate_dv_matrix(genotypes, labels) ==
    [i \in 1..Len(genotypes) |->
        [j \in 1..Len(labels) |-> IF labels[j] \subseteq genotypes[i] THEN 1 ELSE 0]]

\* np.linalg.inv of the matrix above: the inclusion-exclusion signs
inv(genotypes, labels) ==
    [i \in 1..Len(labels) |->
        [j \in 1..Len(genotypes) |->
            IF genotypes[j] \subseteq labels[i]
            THEN (IF (Cardinality(labels[i]) - Cardinality(genotypes[j])) % 2 = 0 THEN 1 ELSE -1)
            ELSE 0]]

\* scipy.linalg.hadamard(n) for n = 2**length, Sylvester's construction:
\* entry (i, j) is -1 when the binary numbers i and j share an odd number of bits
hadamard(n) ==
    [i \in 1..n |->
        [j \in 1..n |->
            IF Cardinality(BinaryGenotypes[i] \cap BinaryGenotypes[j]) % 2 = 0 THEN 1 ELSE -1]]

\* one diagonal entry of the weight matrix: ((-1)**epistasis)/(2**(n-epistasis))
Weight(n, epistasis) ==
    Float(IF epistasis % 2 = 0 THEN 1 ELSE -1, n - epistasis)

\* hadamard_weight_vector(genotypes): an l x l array of zeros with the
\* weights on its diagonal
hadamard_weight_vector(genotypes) ==
    [g \in 1..Len(genotypes) |->
        [h \in 1..Len(genotypes) |->
            IF g = h THEN Weight(Length, Cardinality(genotypes[g])) ELSE Zero]]

(***************************************************************************)
(* The arguments of the constructors: what Binary.genotypes,               *)
(* Binary.phenotypes and Binary.errors hold.  The errors are absent, one   *)
(* per genotype (log_transform False) or a lower and an upper one per      *)
(* genotype (log_transform True).                                          *)
(***************************************************************************)
NBinary == Len(BinaryGenotypes)

Floats(v) == [i \in 1..Len(v) |-> Float(v[i], 0)]

\* phenotype vectors: a constant that sums without rounding, a constant and
\* a vector whose sums are rounded, and one with small different entries
PhenotypeArgs ==
    {Floats([i \in 1..NBinary |-> 1]),
     Floats([i \in 1..NBinary |-> Pow2(Bits - 1) + 1]),
     Floats([i \in 1..NBinary |-> IF i = 1 THEN 1 ELSE Pow2(Bits) + 2]),
     Floats([i \in 1..NBinary |-> IF i % 2 = 1 THEN 1 ELSE 2])}

NoErrors == [kind |-> "None"]
Symmetric(e) == [kind |-> "symmetric", e |-> Floats(e)]
Asymmetric(lo, up) == [kind |-> "asymmetric", e |-> <<Floats(lo), Floats(up)>>]

ErrorArgs ==
    {NoErrors,
     Symmetric([i \in 1..NBinary |-> 1]),
     Symmetric([i \in 1..NBinary |-> IF i = 1 THEN 0 ELSE 2]),
     Asymmetric([i \in 1..NBinary |-> 1], [i \in 1..NBinary |-> 2])}

\* the maps: every genotype, or all but the last one
MapArgs ==
    {[genotypes |-> BinaryGenotypes, phenotypes |-> y, errors |-> e] :
        y \in PhenotypeArgs, e \in ErrorArgs}
    \cup {[genotypes |-> SubSeq(BinaryGenotypes, 1, NBinary - 1),
           phenotypes |-> Floats([i \in 1..(NBinary - 1) |-> 1]),
           errors |-> Symmetric([i \in 1..(NBinary - 1) |-> 1])]}

\* what a basis-model call leaves in the other variables
BasisCall(op, exc) ==
    /\ call' = [op |-> op]
    /\ result' = exc
    /\ stages' = <<>>
    /\ out' = NoOut
    /\ UNCHANGED self

\* GenericModel.__init__ and the attributes the subclasses add
GenericModel(kind, blas, m) ==
    [kind |-> kind, blas |-> blas,
     genotypes |-> m.genotypes, phenotypes |-> m.phenotypes, errors |-> m.errors,
     log_transform |-> (m.errors.kind = "asymmetric"),
     X |-> <<>>, X_inv |-> <<>>, weight_vector |-> <<>>,
     values |-> <<>>, interaction_errors |-> <<>>]

(***************************************************************************)
(* LocalEpistasisModel(wildtype, genotypes, phenotypes, ...)               *)
(***************************************************************************)
LocalEpistasisModel(blas, m) ==
    IF Len(m.genotypes) # Len(InteractionLabels)
    THEN \* np.linalg.inv of an array that is not square
         BasisCall("LocalEpistasisModel", "LinAlgError") /\ UNCHANGED basis
    ELSE /\ BasisCall("LocalEpistasisModel", "ok")
         /\ basis' = [GenericModel("local", blas, m) EXCEPT
                        !.X = generate_dv_matrix(m.genotypes, InteractionLabels),
                        !.X_inv = inv(m.genotypes, InteractionLabels)]

(***************************************************************************)
(* GlobalEpistasisModel(wildtype, genotypes, phenotypes, ...)              *)
(***************************************************************************)
GlobalEpistasisModel(blas, m) ==
    /\ BasisCall("GlobalEpistasisModel", "ok")
    /\ basis' = [GenericModel("global", blas, m) EXCEPT
                   !.weight_vector = hadamard_weight_vector(m.genotypes),
                   !.X = hadamard(Pow2(Length))]

(***************************************************************************)
(* estimate_interactions()                                                 *)
(***************************************************************************)
\* np.dot(self.X, self.Binary.phenotypes): the matrix in place of its inverse
LocalInteractionsWithX(b) == MatVec(AsFloats(b.X), b.phenotypes, b.blas)

\* np.dot(self.X_inv, self.Binary.phenotypes)
LocalInteractions(b) == MatVec(AsFloats(b.X_inv), b.phenotypes, b.blas)

\* np.dot(self.X, self.Binary.phenotypes): the weights left out
GlobalInteractionsUnweighted(b) == MatVec(AsFloats(b.X), b.phenotypes, b.blas)

\* np.dot(self.weight_vector, np.dot(self.X, self.Binary.phenotypes))
GlobalInteractions(b) ==
    MatVec(b.weight_vector, MatVec(AsFloats(b.X), b.phenotypes, b.blas), b.blas)

estimate_interactions ==
    /\ basis.kind \in {"local", "global"}
    /\ IF NCols(basis.X) # Len(basis.phenotypes)
       THEN \* np.dot: shapes not aligned
            BasisCall("estimate_interactions", "ValueError") /\ UNCHANGED basis
       ELSE /\ BasisCall("estimate_interactions", "ok")
            /\ basis' = [basis EXCEPT !.values =
                            IF basis.kind = "local"
                            THEN LocalInteractions(basis)
                            ELSE GlobalInteractions(basis)]

(***************************************************************************)
(* estimate_error().  A reported error is w * sqrt(r) for a weight w and a *)
(* radicand r, both floats; the square root is kept unevaluated.           *)
(***************************************************************************)
Squares(e) == [j \in 1..Len(e) |-> Mul(e[j], e[j])]

AbsMatrix(M) == [i \in 1..Len(M) |-> [j \in 1..Len(M[i]) |-> Abs(M[i][j])]]

\* np.sqrt(np.dot(X, errors**2))
SqrtDot(M, e, blas) ==
    LET r == MatVec(AsFloats(M), Squares(e), blas)
    IN  [i \in 1..Len(r) |-> [w |-> Float(1, 0), r |-> r[i]]]

\* np.dot(self.weight_vector, unweighted): the weight matrix is diagonal,
\* so entry i is weights[i][i] * unweighted[i]
Weighted(W, unweighted) ==
    [i \in 1..Len(W) |-> [w |-> Mul(W[i][i], unweighted[i].w), r |-> unweighted[i].r]]

LocalErrors(b) ==
    IF b.log_transform
    THEN LET upper == SqrtDot(b.X, b.errors.e[1], b.blas)
             lower == SqrtDot(b.X, b.errors.e[2], b.blas)
         IN  <<lower, upper>>
    ELSE SqrtDot(b.X, b.errors.e, b.blas)

GlobalErrors(b) ==
    IF b.log_transform
    THEN LET upper == SqrtDot(AbsMatrix(b.X), b.errors.e[1], b.blas)
             lower == SqrtDot(AbsMatrix(b.X), b.errors.e[2], b.blas)
         IN  <<Weighted(b.weight_vector, lower), Weighted(b.weight_vector, upper)>>
    ELSE Weighted(b.weight_vector, SqrtDot(AbsMatrix(b.X), b.errors.e, b.blas))

estimate_error ==
    /\ basis.kind \in {"local", "global"}
    /\ IF basis.errors.kind = "None"
       THEN \* self.errors was never set
            BasisCall("estimate_error", "AttributeError") /\ UNCHANGED basis
       ELSE IF NCols(basis.X) # Len(basis.phenotypes)
       THEN \* np.dot: shapes not aligned
            BasisCall("estimate_error", "ValueError") /\ UNCHANGED basis
       ELSE /\ BasisCall("estimate_error", "ok")
            /\ basis' = [basis EXCEPT !.interaction_errors =
                            IF basis.kind = "local" THEN LocalErrors(basis)
                            ELSE GlobalErrors(basis)]

NextBasis ==
    \/ \E blas \in BlasOrders, m \in MapArgs : LocalEpistasisModel(blas, m)
    \/ \E blas \in BlasOrders, m \in MapArgs : GlobalEpistasisModel(blas, m)
    \/ estimate_interactions
    \/ estimate_error

SpecBasis == Init /\ [][NextBasis]_vars

(***************************************************************************)
(* Properties.                                                             *)
(***************************************************************************)
IsFit == call.op = "fit"

SelectorFit == IsFit /\ call.X.kind = "str"

\* the number of entries of mask[1..i] that are 1
RECURSIVE AliveUpTo(_, _)
AliveUpTo(mask, i) == IF i = 0 THEN 0 ELSE AliveUpTo(mask, i - 1) + (IF mask[i] = 1 THEN 1 ELSE 0)

\* kept holds exactly the entries of all whose mask is 1, in their order
ExactlyAlive(kept, all, mask) ==
    /\ Len(mask) = Len(all)
    /\ Len(kept) = AliveUpTo(mask, Len(mask))
    /\ \A i \in 1..Len(all) : mask[i] = 1 => kept[AliveUpTo(mask, i)] = all[i]

\* the predictions the two collaborators make for the rows of a predict call
PredictModelRows ==
    IF call.X.kind = "None" THEN Model.Xfit ELSE call.X.m
PredictClassifierRows ==
    IF call.X.kind = "None" THEN Classifier.Xfit
    ELSE [i \in 1..Len(call.X.m) |-> SubSeq(call.X.m[i], 1, Len(Classifier.coef))]

\* C1: every row of predict's output is 0 where the Classifier's class for
\* the row is 0, whatever the Model predicted, and is the Model's prediction
\* where the class is 1 (with X=None and with an array X).
C1_PredictZeroesDead ==
    (call.op = "predict" /\ result = "ok") =>
        /\ Len(out.value) = Len(PredictModelRows)
        /\ Len(out.value) = Len(PredictClassifierRows)
        /\ \A i \in 1..Len(out.value) :
               IF Dot(PredictClassifierRows[i], Classifier.coef) > 0
               THEN out.value[i] = Dot(PredictModelRows[i], Model.coef)
               ELSE out.value[i] = 0

\* a predict call on an array in which a dead row had a nonzero quantitative
\* prediction and an alive row kept its nonzero prediction
C1_Witness ==
    /\ call.op = "predict" /\ result = "ok" /\ call.X.kind = "ndarray"
    /\ \E i \in 1..Len(out.value) :
           out.yclasses[i] = 0 /\ out.ypred[i] # 0 /\ out.value[i] = 0
    /\ \E i \in 1..Len(out.value) :
           out.yclasses[i] = 1 /\ out.value[i] # 0

\* C2: fit with two selector strings that differ raises FittingError before
\* anything is computed: no collaborator is called, no matrix is built, and
\* Xbuilt, Xclass, Xfit and both collaborators are left as they were.
C2_MismatchFailsFirst ==
    [][(call'.op = "fit" /\ call'.X.kind = "str" /\ call'.y.kind = "str"
            /\ call'.X.s # call'.y.s)
        => (result' = "FittingError" /\ stages' = <<>>
            /\ UNCHANGED <<Xbuilt, Xclass, Xfit, Classifier, Model>>)]_vars

\* fit(X='obs', y='complete') has failed on an object that was fitted before
C2_Witness ==
    /\ IsFit /\ call.X = Str("obs") /\ call.y = Str("complete")
    /\ result = "FittingError"
    /\ Fitted /\ "obs" \in DOMAIN Xbuilt

\* C3: once both collaborators are fitted, thetas has one entry per
\* classifier coefficient plus one per model coefficient: the classifier's
\* coefficients first, then the model's, each in its own order.
C3_ThetasClassifierFirst ==
    Fitted =>
        /\ Len(thetas) = Len(Classifier.coef) + Len(Model.coef)
        /\ \A j \in 1..Len(Classifier.coef) : thetas[j] = Classifier.coef[j]
        /\ \A j \in 1..Len(Model.coef) : thetas[Len(Classifier.coef) + j] = Model.coef[j]

\* a fitted object whose two coefficient vectors differ in length and in
\* their first entry
C3_Witness ==
    /\ Fitted
    /\ Len(Classifier.coef) # Len(Model.coef)
    /\ Classifier.coef[1] # Model.coef[1]
    /\ thetas[1] = Classifier.coef[1]

\* C4: hypothesis and lnlikelihood split the coefficient vector at the
\* classifier's coefficient count: the two parts put together are the whole
\* vector, the first part has as many entries as the classifier has
\* coefficients, and with the default thetas the parts are the classifier's
\* and the model's coefficients, so that neither collaborator is handed a
\* vector of the wrong length.
C4_SplitAtClassifierCount ==
    (call.op \in {"hypothesis", "lnlikelihood"}) =>
        /\ (call.thetas.kind = "None" /\ Fitted)
               => result # "ValueError: shapes not aligned"
        /\ result = "ok" =>
               /\ Len(out.thetas1) = Len(Classifier.coef)
               /\ out.thetas1 \o out.thetas2 =
                      (IF call.thetas.kind = "None" THEN thetas ELSE call.thetas.m)
               /\ call.thetas.kind = "None" =>
                      (out.thetas1 = Classifier.coef /\ out.thetas2 = Model.coef)

\* lnlikelihood with its default thetas has returned a value
C4_Witness ==
    /\ call.op = "lnlikelihood" /\ result = "ok" /\ call.thetas.kind = "None"
    /\ Len(out.thetas1) > 1 /\ Len(out.thetas2) > 1
    /\ out.thetas1 # SubSeq(out.thetas2, 1, Len(out.thetas1))

\* C5 as claimed: lnlikelihood returns negative infinity whenever the
\* combined log-likelihood is not finite (+inf, -inf or NaN).
C5_NonFiniteClamped ==
    (call.op = "lnlikelihood" /\ result = "ok" /\ out.combined.k # "fin")
        => out.value = NInf

\* C5 as amended: lnlikelihood returns negative infinity whenever the
\* combined log-likelihood is +inf or -inf, and never returns +inf; a
\* combined value of NaN is returned as NaN; a finite one is returned as is.
C5_InfiniteClamped ==
    (call.op = "lnlikelihood" /\ result = "ok") =>
        /\ isinf(out.combined) => out.value = NInf
        /\ out.combined.k = "nan" => out.value = NaN
        /\ out.combined.k = "fin" => out.value = out.combined
        /\ out.value # PInf

\* a combined log-likelihood of +inf has been returned as -inf
C5_Witness ==
    /\ call.op = "lnlikelihood" /\ result = "ok"
    /\ out.combined = PInf /\ out.value = NInf

\* C6 as claimed: after a successful fit with a selector string the data of
\* the fitted Model are exactly the rows the Classifier predicts alive: the
\* rows of the selector's matrix and the phenotypes whose prediction is 1, in
\* order and row for row.
C6_ModelFittedOnAliveRows ==
    (SelectorFit /\ result = "ok" /\ Model.fitted) =>
        LET ypred == ClassifierPredict(Xclass.m, Classifier.coef)
        IN  /\ ExactlyAlive(Model.Xfit, Xbuilt[call.X.s].m, ypred)
            /\ ExactlyAlive(Model.y, gpm.phenotypes, ypred)

\* C7 as claimed: every successful fit call with a selector string fits the
\* Classifier, takes its predictions and fits the Model, in this order.
C7_FitStagesInOrder ==
    (SelectorFit /\ result = "ok") =>
        stages = <<"Classifier.fit", "Classifier.predict", "Model.fit">>

\* C8 as claimed: with y one of "obs", "complete", "fit" (X the same
\* selector) or an array of phenotypes (X an array with as many rows and
\* columns as y has entries), the validation of y does not raise.
C8_YKindsAccepted ==
    (IsFit /\ \/ (call.X.kind = "str" /\ call.y.kind = "str" /\ call.X.s = call.y.s
                    /\ call.y.s \in {"obs", "complete", "fit"})
              \/ (call.X.kind = "ndarray" /\ call.y.kind = "ndarray"
                    /\ NRows(call.X.m) = Len(call.y.m) /\ NCols(call.X.m) = Len(call.y.m)))
        => result # "NameError"

\* C9 as claimed: an invalid selector string for X (with the same string or
\* a valid selector for y) is rejected with FittingError or XMatrixException
\* and no collaborator is fitted.
C9_InvalidSelectorRejected ==
    (IsFit /\ call.X.kind = "str" /\ call.X.s \notin {"obs", "complete", "fit"}
           /\ call.y.kind = "str")
        => (result \in {"FittingError", "XMatrixException"} /\ stages = <<>>)

\* C10 as claimed: two arrays are rejected by the shape check exactly when
\* the number of rows of X differs from the number of entries of y.
C10_ShapeCheckOnRows ==
    (IsFit /\ call.X.kind = "ndarray" /\ call.y.kind = "ndarray")
        => (result = "FittingError" <=> NRows(call.X.m) # Len(call.y.m))

\* C11 as claimed: a row contributes a Gaussian term to lnlikelihood exactly
\* when the Classifier, under the classifier coefficients given, puts it in
\* class 1.
C11_GaussianIffClassifiedAlive ==
    (call.op = "lnlikelihood" /\ result = "ok") =>
        out.gaussian = {i \in 1..Len(out.classes) : out.classes[i] = 1}

\* C11 as amended: a row contributes a Gaussian term to lnlikelihood exactly
\* when its observed phenotype is above the threshold, whatever class the
\* Classifier gives it; the class only sets the row's model prediction to 0.
C11_GaussianIffObservedAlive ==
    (call.op = "lnlikelihood" /\ result = "ok") =>
        out.gaussian = {i \in 1..Len(gpm.phenotypes) : gpm.phenotypes[i] > threshold}

\* a likelihood in which a row at or below the threshold is of class 1 and
\* has no Gaussian term
C11_Witness ==
    /\ call.op = "lnlikelihood" /\ result = "ok"
    /\ \E i \in 1..Len(out.classes) :
           out.classes[i] = 1 /\ gpm.phenotypes[i] <= threshold /\ i \notin out.gaussian

\* the matrix get_model_matrix builds for the rows of a selector
SelectorIndex(sel) == IF sel = "obs" THEN gpm.genotypes ELSE complete_genotypes

\* C15 as claimed: after a successful fit with selector s, Xbuilt['class'] is
\* the matrix the Classifier was fitted on, Xbuilt[s] is the full matrix of
\* the selector's genotypes, and Xbuilt['fit'] is the matrix of the alive rows
\* the Model was fitted on, the one in self.Xfit.
C15_XbuiltDocumentedKeys ==
    (SelectorFit /\ result = "ok") =>
        /\ {"class", call.X.s, "fit"} \subseteq DOMAIN Xbuilt
        /\ Xbuilt["class"] = Arr(Classifier.Xfit)
        /\ Xbuilt[call.X.s] = Arr(get_model_matrix(SelectorIndex(call.X.s), ModelSites, model_type))
        /\ Xbuilt["fit"] = Xfit
        /\ Xbuilt["fit"] = Arr(Model.Xfit)

\* the rows the fitted Classifier predicts for self.Xclass
Ypred == ClassifierPredict(Xclass.m, Classifier.coef)

\* C16 as claimed: fit with a 2-d array X and y = 'obs', after the Classifier
\* has been fitted on the attached data, succeeds and fits the Model on
\* exactly the rows of the array whose prediction is 1, whatever an earlier
\* call left in self.Xfit.
C16_ArrayFitUsesSuppliedX ==
    (/\ IsFit /\ call.X.kind = "ndarray" /\ call.y = Str("obs")
     /\ gpm.attached /\ Classifier.fitted /\ Xclass # Unset
     /\ NRows(Xclass.m) = Len(gpm.phenotypes)
     /\ NRows(call.X.m) = Len(gpm.phenotypes)
     /\ \E i \in 1..Len(Ypred) : Ypred[i] = 1)
        => /\ result = "ok"
           /\ Model.Xfit = MaskSelect(call.X.m, Ypred)
           /\ Model.y = MaskSelect(gpm.phenotypes, Ypred)

\* C17 as claimed: once a fit with a selector string has left a Model fitted
\* on the alive rows, with at least one genotype predicted dead, lnlikelihood
\* with its defaults returns a value computed from vectors that all have one
\* entry per genotype.
C17_LikelihoodVectorsAligned ==
    (/\ call.op = "lnlikelihood" /\ call.thetas.kind = "None"
     /\ gpm.attached /\ Fitted /\ Xclass # Unset /\ Xfit = Arr(Model.Xfit)
     /\ NRows(Xclass.m) = Len(gpm.phenotypes)
     /\ "fit" \in DOMAIN Xbuilt /\ Xbuilt["fit"].kind = "str"
     /\ Xbuilt["fit"].s \in DOMAIN Xbuilt
     /\ ExactlyAlive(Model.Xfit, Xbuilt[Xbuilt["fit"].s].m, Ypred)
     /\ \E i \in 1..Len(Ypred) : Ypred[i] = 0)
        => /\ result = "ok"
           /\ Len(out.classes) = Len(gpm.phenotypes)

RECURSIVE Pow3(_)
Pow3(n) == IF n = 0 THEN 1 ELSE 3 * Pow3(n - 1)

\* X . Interactions.values, the phenotypes rebuilt from the coefficients
Reconstructed == MatVec(AsFloats(basis.X), basis.values, basis.blas)

LocalEstimated ==
    basis.kind = "local" /\ call.op = "estimate_interactions" /\ result = "ok"

\* the phenotypes are integers so small that no sum of the estimate or of
\* the reconstruction is rounded
SumsExactly(y) ==
    \A i \in 1..Len(y) : y[i].s = 0 /\ Pow3(Length) * Abs(y[i].n) < Pow2(Bits)

\* C12 as claimed: after estimate_interactions on a Local model of a complete
\* genotype set, X . Interactions.values is exactly the phenotype vector.
C12_LocalRoundTripExact ==
    LocalEstimated => Reconstructed = basis.phenotypes

\* C12 as amended: X . Interactions.values is exactly the phenotype vector
\* when no sum is rounded on the way (integer phenotypes that are small
\* against the precision of a float); otherwise the two can differ by the
\* rounding of the sums.
C12_LocalRoundTripWhenSumsExact ==
    (LocalEstimated /\ SumsExactly(basis.phenotypes))
        => Reconstructed = basis.phenotypes

\* a Local model with phenotypes that differ, whose estimate has a nonzero
\* coefficient above order zero and rebuilds the phenotypes
C12_Witness ==
    /\ LocalEstimated /\ SumsExactly(basis.phenotypes)
    /\ basis.phenotypes[1] # basis.phenotypes[2]
    /\ \E i \in 2..Len(basis.values) : basis.values[i] # Zero
    /\ Reconstructed = basis.phenotypes

GlobalEstimated ==
    basis.kind = "global" /\ call.op = "estimate_interactions" /\ result = "ok"

\* every phenotype is the same nonzero constant
ConstantPhenotypes ==
    /\ basis.phenotypes[1] # Zero
    /\ \A i \in 1..Len(basis.phenotypes) : basis.phenotypes[i] = basis.phenotypes[1]

\* the weight matrix is diagonal with (-1)^k / 2^(n-k) for a genotype of
\* length n with k mutations
WeightsAsDocumented ==
    \A g, h \in 1..Len(basis.genotypes) :
        basis.weight_vector[g][h] =
            IF g = h
            THEN Float(IF Cardinality(basis.genotypes[g]) % 2 = 0 THEN 1 ELSE -1,
                       Length - Cardinality(basis.genotypes[g]))
            ELSE Zero

\* C13 as claimed: for phenotypes that are all the same nonzero constant the
\* Global model's coefficients have exactly one nonzero entry, the one of
\* order zero, and the weight matrix is diagonal with (-1)^k / 2^(n-k).
C13_ConstantGivesZerothOrderOnly ==
    (GlobalEstimated /\ ConstantPhenotypes) =>
        /\ basis.values[1] # Zero
        /\ \A i \in 2..Len(basis.values) : basis.values[i] = Zero
        /\ WeightsAsDocumented

\* C13 as amended: the same, when the sums of the constant are not rounded:
\* the products are added in blocks, or the constant is an integer c with
\* 2^n * |c| within the precision of a float.  The coefficient of order zero
\* is then the constant itself.
C13_ConstantGivesZerothOrderWhenSumsExact ==
    (/\ GlobalEstimated /\ ConstantPhenotypes
     /\ \/ basis.blas = "blocked"
        \/ (basis.phenotypes[1].s = 0
                /\ Pow2(Length) * Abs(basis.phenotypes[1].n) < Pow2(Bits)))
        => /\ basis.values[1] = basis.phenotypes[1]
           /\ \A i \in 2..Len(basis.values) : basis.values[i] = Zero
           /\ WeightsAsDocumented

\* a Global model estimated, in row order, from a constant other than 1
\* that sums without rounding
C13_Witness ==
    /\ GlobalEstimated /\ ConstantPhenotypes /\ basis.blas = "sequential"
    /\ basis.phenotypes[1].s = 0
    /\ Pow2(Length) * Abs(basis.phenotypes[1].n) < Pow2(Bits)
    /\ basis.values[1] = basis.phenotypes[1]
    /\ basis.values[Len(basis.values)] = Zero

\* a product of two floats, not rounded
Product(a, b) == Float(a.n * b.n, a.s + b.s)

\* the sum over the genotypes j of X[i][j]^2 * errors[j]^2
PropagatedVariance(i) ==
    RowDot([j \in 1..Len(basis.X[i]) |-> Float(basis.X[i][j] * basis.X[i][j], 0)],
           Squares(basis.errors.e), basis.blas)

\* C14 as claimed: after estimate_error with symmetric errors the square of
\* each reported error is the sum over the genotypes of the squared matrix
\* entry times the squared phenotype error, and no reported error is
\* negative.
C14_ErrorIsPropagatedVariance ==
    (/\ basis.kind \in {"local", "global"}
     /\ call.op = "estimate_error" /\ result = "ok" /\ ~basis.log_transform)
        => \A i \in 1..Len(basis.interaction_errors) :
               LET err == basis.interaction_errors[i]
               IN  /\ Product(Product(err.w, err.w), err.r) = PropagatedVariance(i)
                   /\ (err.w.n >= 0 \/ err.r = Zero)

=============================================================================
